---------------------------- MODULE Spec2Model ----------------------------
(***************************************************************************)
(* Session store (services/session_manager.py, class SessionManager) and   *)
(* the SSE chat endpoints that drive it (api/v1/chat/endpoints.py).        *)
(*                                                                         *)
(* The specifications share the state; mode, which no action changes,      *)
(* tells the actions what to keep for the properties:                      *)
(*   Spec       the HTTP surface with two concurrent chat turns.  Every    *)
(*              handler is an `async def` run on one event loop, so the    *)
(*              code between two suspension points (a `yield` of the       *)
(*              response generator, `await asyncio.sleep`) is one atomic   *)
(*              action.  The call chat_engine.chat(...) is a call into an  *)
(*              opaque external library; other requests may be served      *)
(*              while it runs, so it is split into its call and its        *)
(*              return.  The clock stands still: what a sweep does to a    *)
(*              running turn, DeleteSession does here.                     *)
(*   SpecApi    the HTTP surface with one chat turn, the JSON body of      *)
(*              every response kept in resp.                               *)
(*   SpecAbort  Spec, with the history of the abort endpoint's calls on    *)
(*              each running turn kept in hist.                            *)
(*   SpecFlight Spec, with the history of the abort endpoint's calls on    *)
(*              each turn between its Mark processing and its terminal     *)
(*              event kept in hist.                                        *)
(*   SpecSweep  the HTTP surface with one chat turn and the clock running, *)
(*              so that GET /sessions sweeps the session away under the    *)
(*              running turn (kept in hist), and with the generator of an  *)
(*              accepted turn run on to its end:                           *)
(*              the server iterates the StreamingResponse, and the engine  *)
(*              call is taken to return or raise.                          *)
(*   SpecStore  two threads calling the methods of SessionManager          *)
(*              directly, MaxCalls calls each, the clock running, every    *)
(*              return value kept in resp.  One action is one              *)
(*              `with self.lock:` section; a method that takes the lock    *)
(*              several times is several actions.                          *)
(*   SpecAnswer the emission loop of one turn that is never aborted, the   *)
(*              answer a string of characters, one action per iteration.   *)
(***************************************************************************)
EXTENDS Integers, Sequences, FiniteSets, TLC

\* ------------------------------------------------------------- bounds
MaxSessions == 2        \* uuid4 values the model can draw
MaxEngines  == 2        \* chat engine objects the model can construct
MaxTicks    == 2        \* clock advances
MaxCalls    == 2        \* SpecStore: method calls one thread makes
MaxTokens   == 6        \* SpecAnswer: tokens of an answer

\* ------------------------------------------------------------- constants
None == 0                       \* Python None / a missing Optional
session_timeout == 3600         \* SessionManager.__init__ default
BatchSize == 5                  \* `(i + 1) % 5 == 0`
ClockStep == session_timeout    \* seconds per clock advance

Ids     == 1 .. MaxSessions     \* the uuid4 strings, in order of generation
Unknown == MaxSessions + 1      \* a string uuid4 never returns
Turns   == {1, 2}               \* the chat-turn requests (tasks)
Threads == {1, 2}               \* the threads of SpecStore
\* answer lengths, in whitespace-delimited tokens: empty, and one that takes
\* a full batch and a last partial one
AnswerLengths == {0, BatchSize + 1}

MsgNotFound      == "session does not exist"
MsgNotProcessing == "no conversation in progress"
MsgAborted       == "conversation aborted"
MsgAbortFailed   == "abort failed"
MsgReset         == "session state reset"
MsgResetFailed   == "reset failed"
MsgDeleted       == "session deleted"

VARIABLES
    sessions,     \* SessionManager.sessions: id -> session record
    nextId,       \* the next uuid4 to be generated (ids are never repeated)
    nextEngine,   \* the next chat engine object to be constructed
    engineMemory, \* engine object -> the memory object it was built on
    now,          \* time.time()
    turns,        \* Spec: one record per chat-turn request
    thr,          \* SpecStore: one record per thread
    resp,         \* what the step just taken returned to its caller
    hist,         \* SpecAbort, SpecFlight: per turn, what the abort endpoint
                  \* did to it; SpecSweep: what the sweep did to it
    mode,         \* what the specification keeps: "plain", "api", "abort",
                  \* "flight", "sweep", "store", "answer"
    gen           \* SpecAnswer: the locals of generate_response, lines 109-128

vars == <<sessions, nextId, nextEngine, engineMemory, now, turns, thr, resp,
          hist, mode, gen>>

NoResp == [op |-> "none"]

\* ------------------------------------------------- SessionManager methods
\* Each method is an operator from the store (and the clock / the fresh
\* objects it draws) to [st |-> the store afterwards, ret |-> its result].
\* A session "reference" (the dict get_session returns) is the session's id.

Present(S, id) == id \in DOMAIN S

\* (mutant) a new session starts with is_processing set
NewSession_Processing(mem, t) ==
    [memory |-> mem, chat_engine |-> None, created_at |-> t,
     last_access |-> t, is_aborted |-> FALSE, is_processing |-> TRUE]

NewSession(mem, t) ==
    [memory |-> mem, chat_engine |-> None, created_at |-> t,
     last_access |-> t, is_aborted |-> FALSE, is_processing |-> FALSE]

\* create_session: the new id is drawn before the lock is taken
create_session(S, newid, t) ==
    [st  |-> [k \in DOMAIN S \cup {newid} |->
                 IF k = newid THEN NewSession(newid, t) ELSE S[k]],
     ret |-> newid]

get_session(S, id, t) ==
    IF ~Present(S, id)
    THEN [st |-> S, ret |-> None]
    ELSE [st |-> [S EXCEPT ![id].last_access = t], ret |-> id]

\* (mutant) the engine of an id that is not stored is stored under that id
set_chat_engine_Insert(S, id, engine) ==
    [st  |-> [k \in DOMAIN S \cup {id} |->
                 IF k = id
                 THEN IF Present(S, id)
                      THEN [S[id] EXCEPT !.chat_engine = engine]
                      ELSE [memory |-> None, chat_engine |-> engine,
                            created_at |-> 0, last_access |-> 0,
                            is_aborted |-> FALSE, is_processing |-> FALSE]
                 ELSE S[k]],
     ret |-> None]

set_chat_engine(S, id, engine) ==
    IF Present(S, id)
    THEN [st |-> [S EXCEPT ![id].chat_engine = engine], ret |-> None]
    ELSE [st |-> S, ret |-> None]

\* (mutant) a session idle for exactly the timeout is removed too
cleanup_locked_NonStrict(S, current_time) ==
    LET gone == {k \in DOMAIN S :
                    current_time - S[k].last_access >= session_timeout}
    IN  [st |-> [k \in DOMAIN S \ gone |-> S[k]], ret |-> Cardinality(gone)]

Expired(S, current_time) ==
    {k \in DOMAIN S : current_time - S[k].last_access > session_timeout}

\* the locked part of cleanup_expired_sessions; current_time was read before
cleanup_locked(S, current_time) ==
    [st  |-> [k \in DOMAIN S \ Expired(S, current_time) |-> S[k]],
     ret |-> Cardinality(Expired(S, current_time))]

get_session_count(S) == [st |-> S, ret |-> Cardinality(DOMAIN S)]

\* (mutant) the result does not tell whether the id was stored
delete_session_AlwaysTrue(S, id) ==
    [st |-> [k \in DOMAIN S \ {id} |-> S[k]], ret |-> TRUE]

delete_session(S, id) ==
    IF Present(S, id)
    THEN [st |-> [k \in DOMAIN S \ {id} |-> S[k]], ret |-> TRUE]
    ELSE [st |-> S, ret |-> FALSE]

\* (mutant) the flag is set on every stored session
abort_session_All(S, id) ==
    IF Present(S, id)
    THEN [st |-> [k \in DOMAIN S |-> [S[k] EXCEPT !.is_aborted = TRUE]],
          ret |-> TRUE]
    ELSE [st |-> S, ret |-> FALSE]

\* (mutant) only a session with a turn in flight is aborted
abort_session_IfProcessing(S, id) ==
    IF Present(S, id) /\ S[id].is_processing
    THEN [st |-> [S EXCEPT ![id].is_aborted = TRUE], ret |-> TRUE]
    ELSE [st |-> S, ret |-> FALSE]

abort_session(S, id) ==
    IF Present(S, id)
    THEN [st |-> [S EXCEPT ![id].is_aborted = TRUE], ret |-> TRUE]
    ELSE [st |-> S, ret |-> FALSE]

\* (mutant) an id that is not stored counts as aborted
is_session_aborted_AbsentTrue(S, id) ==
    IF Present(S, id)
    THEN [st |-> S, ret |-> S[id].is_aborted]
    ELSE [st |-> S, ret |-> TRUE]

is_session_aborted(S, id) ==
    IF Present(S, id)
    THEN [st |-> S, ret |-> S[id].is_aborted]
    ELSE [st |-> S, ret |-> FALSE]

\* (mutant) resetting a flag that is not set fails
reset_session_abort_IfSet(S, id) ==
    IF Present(S, id) /\ S[id].is_aborted
    THEN [st |-> [S EXCEPT ![id].is_aborted = FALSE], ret |-> TRUE]
    ELSE [st |-> S, ret |-> FALSE]

reset_session_abort(S, id) ==
    IF Present(S, id)
    THEN [st |-> [S EXCEPT ![id].is_aborted = FALSE], ret |-> TRUE]
    ELSE [st |-> S, ret |-> FALSE]

\* (mutant) the flag of an id that is not stored is stored under that id
set_processing_status_Upsert(S, id, flag) ==
    IF Present(S, id)
    THEN [st |-> [S EXCEPT ![id].is_processing = flag], ret |-> TRUE]
    ELSE [st  |-> [k \in DOMAIN S \cup {id} |->
                      IF k = id
                      THEN [memory |-> None, chat_engine |-> None,
                            created_at |-> 0, last_access |-> 0,
                            is_aborted |-> FALSE, is_processing |-> flag]
                      ELSE S[k]],
          ret |-> TRUE]

set_processing_status(S, id, flag) ==
    IF Present(S, id)
    THEN [st |-> [S EXCEPT ![id].is_processing = flag], ret |-> TRUE]
    ELSE [st |-> S, ret |-> FALSE]

is_session_processing(S, id) ==
    IF Present(S, id)
    THEN [st |-> S, ret |-> S[id].is_processing]
    ELSE [st |-> S, ret |-> FALSE]

\* get_chat_engine run without interruption (Spec)
get_chat_engine(S, id, t) ==
    LET g == get_session(S, id, t)
    IN  [st |-> g.st, ret |-> IF g.ret # None THEN g.st[id].chat_engine ELSE None]

\* get_or_create_memory run without interruption (Spec); created tells whether
\* newid was used
get_or_create_memory(S, id, newid, t) ==
    LET g == get_session(S, id, t)
    IN  IF g.ret # None
        THEN [st |-> g.st, ret |-> g.st[id].memory, created |-> FALSE]
        ELSE LET c  == create_session(g.st, newid, t)
                 g2 == get_session(c.st, c.ret, t)
             IN  [st |-> g2.st, ret |-> g2.st[g2.ret].memory, created |-> TRUE]

\* cleanup_expired_sessions run without interruption (Spec)
cleanup_expired_sessions(S, t) == cleanup_locked(S, t)


\* ------------------------------------------------------ endpoint handlers
\* Each handler without a suspension point is an operator from the store to
\* [st |-> the store afterwards, ret |-> the JSON body it returns].

\* (mutant) a new engine is built and cached on every request
bind_engine_NoCache(S, id, t, newid, neweng) ==
    LET c == get_chat_engine(S, id, t)
        m == get_or_create_memory(c.st, id, newid, t)
        s == set_chat_engine(m.st, id, neweng)
    IN  [st |-> s.st, engine |-> neweng, built |-> TRUE,
         created |-> m.created, memory |-> m.ret]

\* (mutant) an engine built for an id that is not stored is cached on the
\* session get_or_create_memory has created
bind_engine_CacheOnNew(S, id, t, newid, neweng) ==
    LET c == get_chat_engine(S, id, t)
    IN  IF c.ret # None
        THEN [st |-> c.st, engine |-> c.ret, built |-> FALSE,
              created |-> FALSE, memory |-> None]
        ELSE LET m == get_or_create_memory(c.st, id, newid, t)
                 s == set_chat_engine(m.st, IF m.created THEN newid ELSE id,
                                      neweng)
             IN  [st |-> s.st, engine |-> neweng, built |-> TRUE,
                  created |-> m.created, memory |-> m.ret]

\* lines 74-80 / 252-258: fetch the cached engine, or build one and cache it
bind_engine(S, id, t, newid, neweng) ==
    LET c == get_chat_engine(S, id, t)
    IN  IF c.ret # None
        THEN [st |-> c.st, engine |-> c.ret, built |-> FALSE,
              created |-> FALSE, memory |-> None]
        ELSE LET m == get_or_create_memory(c.st, id, newid, t)
                 s == set_chat_engine(m.st, id, neweng)
             IN  [st |-> s.st, engine |-> neweng, built |-> TRUE,
                  created |-> m.created, memory |-> m.ret]

\* (mutant) success is answered without the flag being set
abort_chat_NoFlag(S, id, t) ==
    LET g == get_session(S, id, t)
    IN  IF g.ret = None
        THEN [st |-> g.st, ret |-> [success |-> FALSE, message |-> MsgNotFound]]
        ELSE LET p == is_session_processing(g.st, id)
             IN  IF ~p.ret
                 THEN [st |-> p.st,
                       ret |-> [success |-> FALSE, message |-> MsgNotProcessing]]
                 ELSE [st  |-> p.st,
                       ret |-> [success |-> TRUE, message |-> MsgAborted,
                                session_id |-> id]]

\* (mutant) the flag is set without asking whether a turn is in flight
abort_chat_NoProcessingCheck(S, id, t) ==
    LET g == get_session(S, id, t)
    IN  IF g.ret = None
        THEN [st |-> g.st, ret |-> [success |-> FALSE, message |-> MsgNotFound]]
        ELSE LET a == abort_session(g.st, id)
             IN  [st  |-> a.st,
                  ret |-> [success |-> a.ret,
                           message |-> IF a.ret THEN MsgAborted
                                                ELSE MsgAbortFailed,
                           session_id |-> id]]

abort_chat(S, id, t) ==
    LET g == get_session(S, id, t)
    IN  IF g.ret = None
        THEN [st |-> g.st, ret |-> [success |-> FALSE, message |-> MsgNotFound]]
        ELSE LET p == is_session_processing(g.st, id)
             IN  IF ~p.ret
                 THEN [st |-> p.st,
                       ret |-> [success |-> FALSE, message |-> MsgNotProcessing]]
                 ELSE LET a == abort_session(p.st, id)
                      IN  [st  |-> a.st,
                           ret |-> [success |-> a.ret,
                                    message |-> IF a.ret THEN MsgAborted
                                                         ELSE MsgAbortFailed,
                                    session_id |-> id]]

reset_session_state(S, id, t) ==
    LET g == get_session(S, id, t)
    IN  IF g.ret = None
        THEN [st |-> g.st, ret |-> [success |-> FALSE, message |-> MsgNotFound]]
        ELSE LET r == reset_session_abort(g.st, id)
                 p == set_processing_status(r.st, id, FALSE)
             IN  [st  |-> p.st,
                  ret |-> [success |-> r.ret,
                           message |-> IF r.ret THEN MsgReset ELSE MsgResetFailed,
                           session_id |-> id]]

get_session_status(S, id, t) ==
    LET g == get_session(S, id, t)
    IN  IF g.ret = None
        THEN [st |-> g.st, ret |-> [exists |-> FALSE, message |-> MsgNotFound]]
        ELSE [st  |-> g.st,
              ret |-> [exists |-> TRUE, session_id |-> id,
                       is_processing |-> is_session_processing(g.st, id).ret,
                       is_aborted |-> is_session_aborted(g.st, id).ret,
                       created_at |-> g.st[id].created_at,
                       last_access |-> g.st[id].last_access]]

get_session_info(S, t) ==
    LET c == cleanup_expired_sessions(S, t)
    IN  [st  |-> c.st,
         ret |-> [active_sessions |-> get_session_count(c.st).ret,
                  cleaned_sessions |-> c.ret]]

delete_session_endpoint(S, id) ==
    LET d == delete_session(S, id)
    IN  [st  |-> d.st,
         ret |-> [deleted |-> d.ret,
                  message |-> IF d.ret THEN MsgDeleted ELSE MsgNotFound]]

create_chat_session(S, newid, t) ==
    LET c == create_session(S, newid, t)
    IN  [st |-> c.st, ret |-> [session_id |-> c.ret]]

\* ok: whether chat_engine.chat(greeting_prompt) returned or raised
get_intelligent_greeting(S, id, t, newid, neweng, ok) ==
    LET g == get_session(S, id, t)
    IN  IF g.ret = None
        THEN [st |-> g.st, built |-> FALSE, engine |-> None, memory |-> None,
              ret |-> [success |-> FALSE, message |-> MsgNotFound]]
        ELSE LET b == bind_engine(g.st, id, t, newid, neweng)
             IN  [st |-> b.st, built |-> b.built, engine |-> b.engine,
                  memory |-> b.memory,
                  ret |-> [success |-> ok, session_id |-> id]]

\* ------------------------------------------------------------ chat turn
\* An SSE event is [type, val]: val is the session id of a session_id event,
\* the number of leading tokens of the answer a content event carries
\* (current_text.strip() is those tokens joined by single spaces), else 0.
Event(type, val) == [type |-> type, val |-> val]

TerminalTypes == {"done", "aborted", "error"}

\* lines 114-128 from the top of iteration i up to the next `yield`: the event
\* yielded and the index the loop resumes at.  No suspension point lies
\* between two checks of the flag inside one run, so `aborted` is one value.
RECURSIVE EmitLoop(_, _, _)
EmitLoop(i, n, aborted) ==
    IF i >= n THEN [ev |-> Event("done", 0), i |-> i]
    ELSE IF aborted THEN [ev |-> Event("aborted", 0), i |-> i]
    ELSE IF (i + 1) % BatchSize = 0 \/ i = n - 1
         THEN [ev |-> Event("content", i + 1), i |-> i + 1]
         ELSE EmitLoop(i + 1, n, aborted)

\* engine_calls: the calls of chat_engine.chat the turn has entered
IdleTurn == [pc |-> "idle", req |-> None, sid |-> None, engine |-> None,
             engine_calls |-> 0, n |-> 0, i |-> 0, events |-> <<>>,
             cleared |-> 0]

\* a thread of SpecStore: the calls it has made, where it is inside a method
\* of SessionManager, the id it was called with, the session dict it holds
\* (ref; seen: the dict's chat_engine when the dict was taken out of the
\* store), the locals current_time and session_id, and the time of the call
IdleThread == [calls |-> 0, pc |-> "idle", called |-> 0, id |-> None,
               ref |-> None, seen |-> None, current_time |-> 0,
               session_id |-> None]

\* ---- the answer as a string (a sequence of one-character strings)
IsSpace(c) == c \in {" ", "\n"}

\* str.split(): the maximal runs of non-whitespace characters of s, in order
RECURSIVE SplitFrom(_, _, _, _)
SplitFrom(s, k, cur, acc) ==
    LET closed == IF cur = <<>> THEN acc ELSE Append(acc, cur)
    IN  IF k > Len(s) THEN closed
        ELSE IF IsSpace(s[k]) THEN SplitFrom(s, k + 1, <<>>, closed)
        ELSE SplitFrom(s, k + 1, Append(cur, s[k]), acc)

split(s) == SplitFrom(s, 1, <<>>, <<>>)

\* str.strip(): s without its leading and trailing whitespace
RECURSIVE strip(_)
strip(s) ==
    IF s = <<>> THEN s
    ELSE IF IsSpace(s[1]) THEN strip(Tail(s))
    ELSE IF IsSpace(s[Len(s)]) THEN strip(SubSeq(s, 1, Len(s) - 1))
    ELSE s

\* the answers drawn: up to MaxTokens tokens, separated by a space, two
\* spaces or a newline, with or without whitespace before and after
Separators == {<<" ">>, <<" ", " ">>, <<"\n">>}

Margins == {<<>>, <<" ">>}

RECURSIVE Tokens(_)
Tokens(n) ==
    IF n = 1 THEN {<<"w">>}
    ELSE {b \o sep \o <<"w">> : b \in Tokens(n - 1), sep \in Separators}

Answers ==
    Margins \cup
    UNION {{lead \o b \o trail : lead \in Margins, b \in Tokens(n),
                                  trail \in Margins} : n \in 1 .. MaxTokens}

IdleGen == [pc |-> "idle", answer |-> <<>>, words |-> <<>>, i |-> 0,
            current_text |-> <<>>, events |-> <<>>]

Start ==
    /\ sessions = <<>>
    /\ nextId = 1
    /\ nextEngine = 1
    /\ engineMemory = <<>>
    /\ now = 0
    /\ turns = [t \in Turns |-> IdleTurn]
    /\ thr = [t \in Threads |-> IdleThread]
    /\ resp = NoResp
    /\ hist = [t \in Turns |-> "none"]

Init == Start /\ mode = "plain" /\ gen = IdleGen

InitApi == Start /\ mode = "api" /\ gen = IdleGen

InitAbort == Start /\ mode = "abort" /\ gen = IdleGen

InitFlight == Start /\ mode = "flight" /\ gen = IdleGen

InitSweep == Start /\ mode = "sweep" /\ gen = IdleGen

InitStore == Start /\ mode = "store" /\ gen = IdleGen

\* line 109: response.response is any of the answers
InitAnswer ==
    /\ Start
    /\ mode = "answer"
    /\ gen \in {[IdleGen EXCEPT !.pc = "answer", !.answer = a] : a \in Answers}

\* ---- what the specifications keep
\* the chat turns a specification runs
ActiveTurns == IF mode \in {"api", "sweep"} THEN {1} ELSE Turns

\* A turn is in its window from the return of chat_stream until its engine
\* call has returned or raised.
Window == {"created", "sent_id", "started", "engine"}

\* hist[t] after a step; abortId is the id POST /abort was called with in this
\* step (None: the step is no call of it).
\*   "ok"      the endpoint answered success = true for the turn's session
\*             while the turn was in its window
\*   "undone"  ... and the flag it set was cleared, or the session removed,
\*             while the turn was still in its window
Track(abortId) ==
    [t \in Turns |->
        IF /\ turns[t].pc \in Window
           /\ turns[t].sid = abortId
           /\ abort_chat(sessions, abortId, now).ret.success
        THEN "ok"
        ELSE IF /\ hist[t] = "ok"
                /\ turns[t].pc \in Window
                /\ ~is_session_aborted(sessions', turns[t].sid).ret
             THEN "undone"
             ELSE hist[t]]

\* A turn is in flight from its Mark processing until its terminal event.
InFlight == {"sent_id", "started", "engine", "emitting"}

\* hist[t] after a step, in SpecFlight
\*   "ok"      the endpoint answered success = true for the turn's session
\*             while the turn was in flight and had a check of the flag ahead
\*   "late"    ... while the turn was in flight with all its tokens appended
\*             (line 128 is reached without another check)
\*   "undone"  after "ok", the flag was cleared, or the session removed,
\*             while the turn was still in flight
TrackFlight(abortId) ==
    [t \in Turns |->
        IF /\ turns[t].pc \in InFlight
           /\ turns[t].sid = abortId
           /\ abort_chat(sessions, abortId, now).ret.success
        THEN IF turns[t].pc = "emitting" /\ turns[t].i >= turns[t].n
             THEN "late" ELSE "ok"
        ELSE IF /\ hist[t] = "ok"
                /\ turns[t].pc \in InFlight
                /\ ~is_session_aborted(sessions', turns[t].sid).ret
             THEN "undone"
             ELSE hist[t]]

\* hist[t] after a step, in SpecSweep
\*   "swept"   GET /sessions removed the turn's session, is_processing set,
\*             while the turn was in flight
TrackSweep(op) ==
    [t \in Turns |->
        IF /\ op = "sessions"
           /\ turns[t].pc \in InFlight
           /\ Present(sessions, turns[t].sid)
           /\ sessions[turns[t].sid].is_processing
           /\ ~Present(sessions', turns[t].sid)
        THEN "swept"
        ELSE hist[t]]

\* the last conjunct of every action of the HTTP surface: the JSON body the
\* step hands back (op = "none": the step of a response generator)
Observe(op, id, ret, abortId) ==
    /\ resp' = IF mode = "api" /\ op # "none"
               THEN [op |-> op, id |-> id, ret |-> ret]
               ELSE NoResp
    /\ hist' = IF mode = "abort" THEN Track(abortId)
               ELSE IF mode = "flight" THEN TrackFlight(abortId)
               ELSE IF mode = "sweep" THEN TrackSweep(op)
               ELSE hist
    /\ mode' = mode
    /\ gen' = gen

Silent == Observe("none", None, None, None)

\* ids a client can send: those handed out so far, and one never handed out
ReqIds == (1 .. (nextId - 1)) \cup {Unknown}

\* the engine map after `engine` was built on `memory`
Built(engine, memory) ==
    [e \in DOMAIN engineMemory \cup {engine} |->
        IF e = engine THEN memory ELSE engineMemory[e]]

Tick ==
    /\ now < MaxTicks * ClockStep
    /\ now' = now + ClockStep
    /\ UNCHANGED <<sessions, nextId, nextEngine, engineMemory, turns, thr>>
    /\ Silent

\* POST /session
CreateChatSession ==
    /\ nextId <= MaxSessions
    /\ sessions' = create_chat_session(sessions, nextId, now).st
    /\ nextId' = nextId + 1
    /\ UNCHANGED <<nextEngine, engineMemory, now, turns, thr>>
    /\ Observe("create", None, create_chat_session(sessions, nextId, now).ret, None)

\* GET /sessions
GetSessionInfo ==
    /\ sessions' = get_session_info(sessions, now).st
    /\ UNCHANGED <<nextId, nextEngine, engineMemory, now, turns, thr>>
    /\ Observe("sessions", None, get_session_info(sessions, now).ret, None)

\* DELETE /session/{session_id}
DeleteSession(id) ==
    /\ sessions' = delete_session_endpoint(sessions, id).st
    /\ UNCHANGED <<nextId, nextEngine, engineMemory, now, turns, thr>>
    /\ Observe("delete", id, delete_session_endpoint(sessions, id).ret, None)

\* POST /abort/{session_id}
AbortChat(id) ==
    /\ sessions' = abort_chat(sessions, id, now).st
    /\ UNCHANGED <<nextId, nextEngine, engineMemory, now, turns, thr>>
    /\ Observe("abort", id, abort_chat(sessions, id, now).ret, id)

\* POST /reset/{session_id}
ResetSessionState(id) ==
    /\ sessions' = reset_session_state(sessions, id, now).st
    /\ UNCHANGED <<nextId, nextEngine, engineMemory, now, turns, thr>>
    /\ Observe("reset", id, reset_session_state(sessions, id, now).ret, None)

\* GET /status/{session_id}
GetSessionStatus(id) ==
    /\ sessions' = get_session_status(sessions, id, now).st
    /\ UNCHANGED <<nextId, nextEngine, engineMemory, now, turns, thr>>
    /\ Observe("status", id, get_session_status(sessions, id, now).ret, None)

\* GET /greeting/{session_id}
GetIntelligentGreeting(id, ok) ==
    /\ LET r == get_intelligent_greeting(sessions, id, now, nextId, nextEngine, ok)
       IN  /\ r.built => nextEngine <= MaxEngines
           /\ sessions' = r.st
           /\ nextEngine' = IF r.built THEN nextEngine + 1 ELSE nextEngine
           /\ engineMemory' = IF r.built THEN Built(r.engine, r.memory)
                                         ELSE engineMemory
    /\ UNCHANGED <<nextId, now, turns, thr>>
    /\ Observe("greeting", id,
               get_intelligent_greeting(sessions, id, now, nextId, nextEngine,
                                        ok).ret, None)

\* POST /stream, lines 69-80 and 137: resolve the session, bind the engine,
\* return the StreamingResponse (the generator has not run yet)
ChatStream(t, req) ==
    /\ t \in ActiveTurns
    /\ turns[t].pc = "idle"
    /\ \A u \in Turns : u < t => turns[u].pc # "idle"
    /\ LET fresh == (req = None)
           S1    == IF fresh THEN create_session(sessions, nextId, now).st
                             ELSE sessions
           sid   == IF fresh THEN nextId ELSE req
           id1   == IF fresh THEN nextId + 1 ELSE nextId
           b     == bind_engine(S1, sid, now, id1, nextEngine)
       IN  /\ (fresh \/ b.created) => nextId <= MaxSessions
           /\ b.built => nextEngine <= MaxEngines
           /\ sessions' = b.st
           /\ nextId' = IF b.created THEN id1 + 1 ELSE id1
           /\ nextEngine' = IF b.built THEN nextEngine + 1 ELSE nextEngine
           /\ engineMemory' = IF b.built THEN Built(b.engine, b.memory)
                                         ELSE engineMemory
           /\ turns' = [turns EXCEPT ![t] =
                           [@ EXCEPT !.pc = "created", !.req = req,
                                     !.sid = sid, !.engine = b.engine]]
    /\ UNCHANGED <<now, thr>>
    /\ Silent

\* ------------------------------------------- generate_response, lines 82-135
Emit(rec, ev) == [rec EXCEPT !.events = Append(@, ev)]

\* (mutant) the session_id event is sent whether or not an id was supplied
GenBegin_AlwaysId(t) ==
    /\ turns[t].pc = "created"
    /\ LET sid == turns[t].sid
           p   == set_processing_status(sessions, sid, TRUE)
           r   == reset_session_abort(p.st, sid)
       IN  /\ sessions' = r.st
           /\ turns' = [turns EXCEPT ![t] =
                  [Emit(@, Event("session_id", sid)) EXCEPT !.pc = "sent_id"]]
    /\ UNCHANGED <<nextId, nextEngine, engineMemory, now, thr>>
    /\ Silent

\* (mutant) Mark processing leaves the abort flag as it finds it
GenBegin_NoReset(t) ==
    /\ turns[t].pc = "created"
    /\ LET sid == turns[t].sid
           p   == set_processing_status(sessions, sid, TRUE)
       IN  /\ sessions' = p.st
           /\ turns' = [turns EXCEPT ![t] =
                  IF turns[t].req # sid
                  THEN [Emit(@, Event("session_id", sid)) EXCEPT !.pc = "sent_id"]
                  ELSE [Emit(@, Event("start", 0)) EXCEPT !.pc = "started"]]
    /\ UNCHANGED <<nextId, nextEngine, engineMemory, now, thr>>
    /\ Silent

\* (mutant) a turn on a session that is already processing is refused
GenBegin_RejectBusy(t) ==
    /\ turns[t].pc = "created"
    /\ LET sid  == turns[t].sid
           busy == is_session_processing(sessions, sid).ret
           p    == set_processing_status(sessions, sid, TRUE)
           r    == reset_session_abort(p.st, sid)
       IN  /\ sessions' = IF busy THEN sessions ELSE r.st
           /\ turns' = [turns EXCEPT ![t] =
                  IF busy
                  THEN [Emit(@, Event("error", 0)) EXCEPT !.pc = "terminal"]
                  ELSE IF turns[t].req # sid
                  THEN [Emit(@, Event("session_id", sid)) EXCEPT !.pc = "sent_id"]
                  ELSE [Emit(@, Event("start", 0)) EXCEPT !.pc = "started"]]
    /\ UNCHANGED <<nextId, nextEngine, engineMemory, now, thr>>
    /\ Silent

\* lines 86-94: mark processing, clear the abort flag, first `yield`
GenBegin(t) ==
    /\ turns[t].pc = "created"
    /\ LET sid == turns[t].sid
           p   == set_processing_status(sessions, sid, TRUE)
           r   == reset_session_abort(p.st, sid)
       IN  /\ sessions' = r.st
           /\ turns' = [turns EXCEPT ![t] =
                  IF turns[t].req # sid
                  THEN [Emit(@, Event("session_id", sid)) EXCEPT !.pc = "sent_id"]
                  ELSE [Emit(@, Event("start", 0)) EXCEPT !.pc = "started"]]
    /\ UNCHANGED <<nextId, nextEngine, engineMemory, now, thr>>
    /\ Silent

\* line 94 after the session_id event was taken
GenStart(t) ==
    /\ turns[t].pc = "sent_id"
    /\ turns' = [turns EXCEPT ![t] =
                    [Emit(@, Event("start", 0)) EXCEPT !.pc = "started"]]
    /\ UNCHANGED <<sessions, nextId, nextEngine, engineMemory, now, thr>>
    /\ Silent

\* (mutant) the `return` after the aborted event is missing
PreCheck_NoReturn(t) ==
    /\ turns[t].pc = "started"
    /\ turns' = [turns EXCEPT ![t] =
           IF is_session_aborted(sessions, turns[t].sid).ret
           THEN [Emit(@, Event("aborted", 0)) EXCEPT
                    !.pc = "engine", !.engine_calls = @ + 1]
           ELSE [@ EXCEPT !.pc = "engine", !.engine_calls = @ + 1]]
    /\ UNCHANGED <<sessions, nextId, nextEngine, engineMemory, now, thr>>
    /\ Silent

\* (mutant) the check before the engine call is missing
PreCheck_Skipped(t) ==
    /\ turns[t].pc = "started"
    /\ turns' = [turns EXCEPT ![t] =
                    [@ EXCEPT !.pc = "engine", !.engine_calls = @ + 1]]
    /\ UNCHANGED <<sessions, nextId, nextEngine, engineMemory, now, thr>>
    /\ Silent

\* (mutant) the check on a session that is not stored raises KeyError
PreCheck_KeyError(t) ==
    /\ turns[t].pc = "started"
    /\ turns' = [turns EXCEPT ![t] =
           IF ~Present(sessions, turns[t].sid)
           THEN [Emit(@, Event("error", 0)) EXCEPT !.pc = "terminal"]
           ELSE IF is_session_aborted(sessions, turns[t].sid).ret
           THEN [Emit(@, Event("aborted", 0)) EXCEPT !.pc = "terminal"]
           ELSE [@ EXCEPT !.pc = "engine", !.engine_calls = @ + 1]]
    /\ UNCHANGED <<sessions, nextId, nextEngine, engineMemory, now, thr>>
    /\ Silent

\* (mutant) a turn that finds the flag set waits for it to be cleared
PreCheck_Waits(t) ==
    /\ turns[t].pc = "started"
    /\ turns' = [turns EXCEPT ![t] =
           IF is_session_aborted(sessions, turns[t].sid).ret
           THEN @
           ELSE [@ EXCEPT !.pc = "engine", !.engine_calls = @ + 1]]
    /\ UNCHANGED <<sessions, nextId, nextEngine, engineMemory, now, thr>>
    /\ Silent

\* lines 97-102: the check before the engine call, then the call is entered
PreCheck(t) ==
    /\ turns[t].pc = "started"
    /\ turns' = [turns EXCEPT ![t] =
           IF is_session_aborted(sessions, turns[t].sid).ret
           THEN [Emit(@, Event("aborted", 0)) EXCEPT !.pc = "terminal"]
           ELSE [@ EXCEPT !.pc = "engine", !.engine_calls = @ + 1]]
    /\ UNCHANGED <<sessions, nextId, nextEngine, engineMemory, now, thr>>
    /\ Silent

\* (mutant) the check after the engine call is missing
EngineReturn_NoPostCheck(t, n) ==
    /\ turns[t].pc = "engine"
    /\ LET aborted == is_session_aborted(sessions, turns[t].sid).ret
           step    == EmitLoop(0, n, aborted)
       IN  turns' = [turns EXCEPT ![t] =
               [Emit(@, step.ev) EXCEPT
                   !.n = n, !.i = step.i,
                   !.pc = IF step.ev.type = "content" THEN "emitting"
                                                      ELSE "terminal"]]
    /\ UNCHANGED <<sessions, nextId, nextEngine, engineMemory, now, thr>>
    /\ Silent

\* lines 102-128: chat_engine.chat returns an answer of n tokens; the check
\* after the call, then the emission loop up to its first `yield`
EngineReturn(t, n) ==
    /\ turns[t].pc = "engine"
    /\ LET aborted == is_session_aborted(sessions, turns[t].sid).ret
           step    == EmitLoop(0, n, aborted)
       IN  turns' = [turns EXCEPT ![t] =
               IF aborted
               THEN [Emit(@, Event("aborted", 0)) EXCEPT !.pc = "terminal"]
               ELSE [Emit(@, step.ev) EXCEPT
                        !.n = n, !.i = step.i,
                        !.pc = IF step.ev.type = "content" THEN "emitting"
                                                           ELSE "terminal"]]
    /\ UNCHANGED <<sessions, nextId, nextEngine, engineMemory, now, thr>>
    /\ Silent

\* (mutant) a call that raised is made a second time before the error event
EngineRaise_Retry(t) ==
    /\ turns[t].pc = "engine"
    /\ turns' = [turns EXCEPT ![t] =
                    [Emit(@, Event("error", 0)) EXCEPT
                        !.pc = "terminal", !.engine_calls = @ + 1]]
    /\ UNCHANGED <<sessions, nextId, nextEngine, engineMemory, now, thr>>
    /\ Silent

\* lines 102, 130-132: chat_engine.chat raises
EngineRaise(t) ==
    /\ turns[t].pc = "engine"
    /\ turns' = [turns EXCEPT ![t] =
                    [Emit(@, Event("error", 0)) EXCEPT !.pc = "terminal"]]
    /\ UNCHANGED <<sessions, nextId, nextEngine, engineMemory, now, thr>>
    /\ Silent

\* (mutant) the flag is not checked again inside the emission loop
EmitNext_NoCheck(t) ==
    /\ turns[t].pc = "emitting"
    /\ LET step == EmitLoop(turns[t].i, turns[t].n, FALSE)
       IN  turns' = [turns EXCEPT ![t] =
               [Emit(@, step.ev) EXCEPT
                   !.i = step.i,
                   !.pc = IF step.ev.type = "content" THEN "emitting"
                                                      ELSE "terminal"]]
    /\ UNCHANGED <<sessions, nextId, nextEngine, engineMemory, now, thr>>
    /\ Silent

\* lines 114-128 after a content event and its sleep: on to the next `yield`
EmitNext(t) ==
    /\ turns[t].pc = "emitting"
    /\ LET aborted == is_session_aborted(sessions, turns[t].sid).ret
           step    == EmitLoop(turns[t].i, turns[t].n, aborted)
       IN  turns' = [turns EXCEPT ![t] =
               [Emit(@, step.ev) EXCEPT
                   !.i = step.i,
                   !.pc = IF step.ev.type = "content" THEN "emitting"
                                                      ELSE "terminal"]]
    /\ UNCHANGED <<sessions, nextId, nextEngine, engineMemory, now, thr>>
    /\ Silent

\* (mutant) the flag is cleared at the end of the try block, not in a finally
Cleanup_NotOnError(t) ==
    /\ turns[t].pc = "terminal"
    /\ LET failed == turns[t].events[Len(turns[t].events)].type = "error"
       IN  /\ sessions' = IF failed THEN sessions
                          ELSE set_processing_status(sessions, turns[t].sid,
                                                     FALSE).st
           /\ turns' = [turns EXCEPT ![t] =
                  [@ EXCEPT !.pc = "finished",
                            !.cleared = IF failed THEN @ ELSE @ + 1]]
    /\ UNCHANGED <<nextId, nextEngine, engineMemory, now, thr>>
    /\ Silent

\* (mutant) the generator ends without clearing the flag
Cleanup_Missing(t) ==
    /\ turns[t].pc = "terminal"
    /\ turns' = [turns EXCEPT ![t] =
                    [@ EXCEPT !.pc = "finished", !.cleared = @ + 1]]
    /\ UNCHANGED <<sessions, nextId, nextEngine, engineMemory, now, thr>>
    /\ Silent

\* lines 133-135: the finally clause, run when the terminal event was taken
Cleanup(t) ==
    /\ turns[t].pc = "terminal"
    /\ sessions' = set_processing_status(sessions, turns[t].sid, FALSE).st
    /\ turns' = [turns EXCEPT ![t] =
                    [@ EXCEPT !.pc = "finished", !.cleared = @ + 1]]
    /\ UNCHANGED <<nextId, nextEngine, engineMemory, now, thr>>
    /\ Silent

\* --------------------------------------- SessionManager called by threads
\* One action is one `with self.lock:` section, or the code of a method
\* between two of them.
StoreFrame == UNCHANGED <<nextEngine, engineMemory, turns, hist, mode, gen>>

\* what a method call hands back to its caller: its return value, or raised
StoreReply(op, id, ret, raised, called) ==
    resp' = [op |-> op, id |-> id, ret |-> ret, raised |-> raised,
             called |-> called]

\* thread t may enter a method
CanCall(t) == thr[t].pc = "idle" /\ thr[t].calls < MaxCalls

\* thread t has entered a method and stays in it at pc
Entered(T, t, pc, id) ==
    [T EXCEPT ![t] = [@ EXCEPT !.calls = @ + 1, !.pc = pc, !.id = id,
                               !.called = now]]

\* thread t has left the method it was in
Left(T, t) == [T EXCEPT ![t] = [IdleThread EXCEPT !.calls = T[t].calls]]

\* the threads after the store went from S to S2: a thread that holds the
\* dict of a session taken out of the store keeps the dict as it was
Detach(T, S, S2) ==
    [u \in Threads |->
        IF T[u].pc = "gce_read" /\ T[u].ref \in DOMAIN S \ DOMAIN S2
        THEN [T[u] EXCEPT !.seen = S[T[u].ref].chat_engine]
        ELSE T[u]]

Call_create_session(t) ==
    /\ CanCall(t)
    /\ nextId <= MaxSessions
    /\ sessions' = create_session(sessions, nextId, now).st
    /\ nextId' = nextId + 1
    /\ thr' = Left(Entered(thr, t, "idle", None), t)
    /\ StoreReply("create_session", None, nextId, FALSE, now)
    /\ UNCHANGED now
    /\ StoreFrame

\* a method that is one lock section: r is what it does to the store
Call(t, op, id, r) ==
    /\ CanCall(t)
    /\ sessions' = r.st
    /\ thr' = Left(Entered(Detach(thr, sessions, r.st), t, "idle", id), t)
    /\ StoreReply(op, id, r.ret, FALSE, now)
    /\ UNCHANGED <<nextId, now>>
    /\ StoreFrame

Call_get_session(t, id) ==
    Call(t, "get_session", id, get_session(sessions, id, now))

Call_set_chat_engine(t, id, engine) ==
    Call(t, "set_chat_engine", id, set_chat_engine(sessions, id, engine))

Call_get_session_count(t) ==
    Call(t, "get_session_count", None, get_session_count(sessions))

Call_delete_session(t, id) ==
    Call(t, "delete_session", id, delete_session(sessions, id))

Call_abort_session(t, id) ==
    Call(t, "abort_session", id, abort_session(sessions, id))

Call_is_session_aborted(t, id) ==
    Call(t, "is_session_aborted", id, is_session_aborted(sessions, id))

Call_reset_session_abort(t, id) ==
    Call(t, "reset_session_abort", id, reset_session_abort(sessions, id))

Call_set_processing_status(t, id, flag) ==
    Call(t, "set_processing_status", id,
         set_processing_status(sessions, id, flag))

Call_is_session_processing(t, id) ==
    Call(t, "is_session_processing", id, is_session_processing(sessions, id))

\* get_chat_engine, line 63: get_session
GetChatEngine_Get(t, id) ==
    /\ CanCall(t)
    /\ LET g == get_session(sessions, id, now)
       IN  /\ sessions' = g.st
           /\ IF g.ret = None
              THEN /\ thr' = Left(Entered(thr, t, "idle", id), t)
                   /\ StoreReply("get_chat_engine", id, None, FALSE, now)
              ELSE /\ thr' = [Entered(thr, t, "gce_read", id) EXCEPT
                                 ![t].ref = g.ret]
                   /\ resp' = NoResp
    /\ UNCHANGED <<nextId, now>>
    /\ StoreFrame

\* get_chat_engine, line 64: session['chat_engine'], read outside the lock
GetChatEngine_Read(t) ==
    /\ thr[t].pc = "gce_read"
    /\ StoreReply("get_chat_engine", thr[t].id,
                  IF Present(sessions, thr[t].ref)
                  THEN sessions[thr[t].ref].chat_engine
                  ELSE thr[t].seen,
                  FALSE, thr[t].called)
    /\ thr' = Left(thr, t)
    /\ UNCHANGED <<sessions, nextId, now>>
    /\ StoreFrame

\* get_or_create_memory, lines 47-49: get_session, and the memory if found
GetOrCreateMemory_Get(t, id) ==
    /\ CanCall(t)
    /\ LET g == get_session(sessions, id, now)
       IN  /\ sessions' = g.st
           /\ IF g.ret # None
              THEN /\ thr' = Left(Entered(thr, t, "idle", id), t)
                   /\ StoreReply("get_or_create_memory", id,
                                 g.st[g.ret].memory, FALSE, now)
              ELSE /\ thr' = Entered(thr, t, "gocm_create", id)
                   /\ resp' = NoResp
    /\ UNCHANGED <<nextId, now>>
    /\ StoreFrame

\* get_or_create_memory, line 51: create_session
GetOrCreateMemory_Create(t) ==
    /\ thr[t].pc = "gocm_create"
    /\ nextId <= MaxSessions
    /\ sessions' = create_session(sessions, nextId, now).st
    /\ nextId' = nextId + 1
    /\ thr' = [thr EXCEPT ![t] =
                  [@ EXCEPT !.pc = "gocm_get", !.session_id = nextId]]
    /\ resp' = NoResp
    /\ UNCHANGED now
    /\ StoreFrame

\* get_or_create_memory, lines 52-53: get_session(session_id), then
\* session['memory']; subscripting None raises TypeError
GetOrCreateMemory_Return(t) ==
    /\ thr[t].pc = "gocm_get"
    /\ LET g == get_session(sessions, thr[t].session_id, now)
       IN  /\ sessions' = g.st
           /\ IF g.ret = None
              THEN StoreReply("get_or_create_memory", thr[t].id, None, TRUE,
                              thr[t].called)
              ELSE StoreReply("get_or_create_memory", thr[t].id,
                              g.st[g.ret].memory, FALSE, thr[t].called)
    /\ thr' = Left(thr, t)
    /\ UNCHANGED <<nextId, now>>
    /\ StoreFrame

\* cleanup_expired_sessions, line 68: current_time = time.time()
Cleanup_ReadClock(t) ==
    /\ CanCall(t)
    /\ thr' = [Entered(thr, t, "sweep", None) EXCEPT ![t].current_time = now]
    /\ resp' = NoResp
    /\ UNCHANGED <<sessions, nextId, now>>
    /\ StoreFrame

\* cleanup_expired_sessions, lines 71-79: the sweep under the lock
Cleanup_Sweep(t) ==
    /\ thr[t].pc = "sweep"
    /\ LET c == cleanup_locked(sessions, thr[t].current_time)
       IN  /\ sessions' = c.st
           /\ thr' = Left(Detach(thr, sessions, c.st), t)
           /\ StoreReply("cleanup_expired_sessions", None, c.ret, FALSE,
                         thr[t].called)
    /\ UNCHANGED <<nextId, now>>
    /\ StoreFrame

\* ------------------------------- generate_response, lines 109-128, on text
AnswerFrame ==
    UNCHANGED <<sessions, nextId, nextEngine, engineMemory, now, turns, thr,
                resp, hist, mode>>

\* lines 109-112: words = answer.split(); current_text = ""
Answer_Split ==
    /\ gen.pc = "answer"
    /\ gen' = [gen EXCEPT !.pc = "loop", !.words = split(gen.answer),
                          !.i = 0, !.current_text = <<>>]
    /\ AnswerFrame

\* lines 113-125: one iteration of the loop of a turn that is not aborted
Answer_Iterate ==
    /\ gen.pc = "loop"
    /\ gen.i < Len(gen.words)
    /\ LET i    == gen.i
           text == gen.current_text \o gen.words[i + 1] \o <<" ">>
       IN  gen' = [gen EXCEPT
                      !.current_text = text,
                      !.i = i + 1,
                      !.events =
                          IF (i + 1) % BatchSize = 0 \/ i = Len(gen.words) - 1
                          THEN Append(@, [type |-> "content",
                                          content |-> strip(text)])
                          ELSE @]
    /\ AnswerFrame

\* line 128: the loop is over
Answer_Done ==
    /\ gen.pc = "loop"
    /\ gen.i = Len(gen.words)
    /\ gen' = [gen EXCEPT !.pc = "done",
                          !.events = Append(@, [type |-> "done",
                                                content |-> <<>>])]
    /\ AnswerFrame

\* ------------------------------------------------------ specifications
Next ==
    \/ CreateChatSession
    \/ GetSessionInfo
    \/ \E id \in ReqIds : DeleteSession(id)
    \/ \E id \in ReqIds : AbortChat(id)
    \/ \E id \in ReqIds : ResetSessionState(id)
    \/ \E id \in ReqIds : GetSessionStatus(id)
    \/ \E id \in ReqIds, ok \in BOOLEAN : GetIntelligentGreeting(id, ok)
    \/ \E t \in Turns, req \in ReqIds \cup {None} : ChatStream(t, req)
    \/ \E t \in Turns : GenBegin(t)
    \/ \E t \in Turns : GenStart(t)
    \/ \E t \in Turns : PreCheck(t)
    \/ \E t \in Turns, n \in AnswerLengths : EngineReturn(t, n)
    \/ \E t \in Turns : EngineRaise(t)
    \/ \E t \in Turns : EmitNext(t)
    \/ \E t \in Turns : Cleanup(t)

Spec == Init /\ [][Next]_vars

SpecApi == InitApi /\ [][Next]_vars

SpecAbort == InitAbort /\ [][Next]_vars

SpecFlight == InitFlight /\ [][Next]_vars

\* one step of the response generator of turn t
TurnStep(t) ==
    \/ GenBegin(t)
    \/ GenStart(t)
    \/ PreCheck(t)
    \/ \E n \in AnswerLengths : EngineReturn(t, n)
    \/ EngineRaise(t)
    \/ EmitNext(t)
    \/ Cleanup(t)

NextSweep ==
    \/ Tick
    \/ Next

SpecSweep ==
    /\ InitSweep
    /\ [][NextSweep]_vars
    /\ \A t \in Turns : WF_vars(TurnStep(t))

NextStore ==
    \/ Tick
    \/ \E t \in Threads : Call_create_session(t)
    \/ \E t \in Threads, id \in ReqIds : Call_get_session(t, id)
    \/ \E t \in Threads, id \in ReqIds, e \in 1 .. MaxEngines :
          Call_set_chat_engine(t, id, e)
    \/ \E t \in Threads : Call_get_session_count(t)
    \/ \E t \in Threads, id \in ReqIds : Call_delete_session(t, id)
    \/ \E t \in Threads, id \in ReqIds : Call_abort_session(t, id)
    \/ \E t \in Threads, id \in ReqIds : Call_is_session_aborted(t, id)
    \/ \E t \in Threads, id \in ReqIds : Call_reset_session_abort(t, id)
    \/ \E t \in Threads, id \in ReqIds, flag \in BOOLEAN :
          Call_set_processing_status(t, id, flag)
    \/ \E t \in Threads, id \in ReqIds : Call_is_session_processing(t, id)
    \/ \E t \in Threads, id \in ReqIds : GetChatEngine_Get(t, id)
    \/ \E t \in Threads : GetChatEngine_Read(t)
    \/ \E t \in Threads, id \in ReqIds : GetOrCreateMemory_Get(t, id)
    \/ \E t \in Threads : GetOrCreateMemory_Create(t)
    \/ \E t \in Threads : GetOrCreateMemory_Return(t)
    \/ \E t \in Threads : Cleanup_ReadClock(t)
    \/ \E t \in Threads : Cleanup_Sweep(t)

SpecStore == InitStore /\ [][NextStore]_vars

NextAnswer ==
    \/ Answer_Split
    \/ Answer_Iterate
    \/ Answer_Done

SpecAnswer == InitAnswer /\ [][NextAnswer]_vars

\* ====================================================================
\* Properties
\* ====================================================================
Types(t) == [k \in 1 .. Len(turns[t].events) |-> turns[t].events[k].type]

Last(t) == turns[t].events[Len(turns[t].events)]

Ended(t) == turns[t].pc \in {"terminal", "finished"}

NoContent(t) == \A k \in 1 .. Len(turns[t].events) : Types(t)[k] # "content"

\* what Types(t) must look like so far: [session_id] start content* terminal
EventOrder(t) ==
    LET ty  == Types(t)
        off == IF Len(ty) >= 1 /\ ty[1] = "session_id" THEN 1 ELSE 0
    IN  /\ \A k \in 1 .. Len(ty) :
              /\ ty[k] = "session_id" => k = 1
              /\ ty[k] = "start" <=> k = off + 1
              /\ k > off + 1 => ty[k] \in {"content"} \cup TerminalTypes
              /\ ty[k] \in TerminalTypes => k = Len(ty)
        /\ Ended(t) <=> (Len(ty) >= 1 /\ ty[Len(ty)] \in TerminalTypes)

\* C1: every chat turn emits an optional session_id event, then one start
\* event, then content events, then exactly one terminal event (done, aborted
\* or error), under every interleaving with other requests; nothing follows
\* the terminal event and no content event precedes start.
C1_EventSequence == \A t \in Turns : EventOrder(t)

C1_Witness ==
    \E t \in Turns :
        /\ turns[t].pc = "finished"
        /\ Types(t) = <<"session_id", "start", "content", "content", "done">>
        /\ \E u \in Turns : Types(u) = <<"start", "aborted">>

\* C2: a turn that has ended has cleared is_processing exactly once
\* (one set_processing_status(id, False), on the done, the aborted and the
\* error path alike), and a turn clears it only after its terminal event.
C2_ResetOnce ==
    \A t \in Turns :
        /\ turns[t].pc = "finished" => turns[t].cleared = 1
        /\ turns[t].cleared \in {0, 1}
        /\ turns[t].cleared = 1 =>
              /\ turns[t].pc = "finished"
              /\ Last(t).type \in TerminalTypes

C2_Witness ==
    /\ turns[1].pc = "finished" /\ Last(1).type = "error" /\ turns[1].cleared = 1
    /\ turns[2].pc = "finished" /\ Last(2).type = "aborted" /\ turns[2].cleared = 1

\* C3 (as claimed): whenever the abort endpoint was called (and answered
\* success = true) for the session of a started turn before the turn's engine
\* call returned, and the call did not raise, the turn ends with an aborted
\* event and no content event, and is_processing is false after it.
C3_AsClaimed ==
    \A t \in Turns :
        (/\ turns[t].pc = "finished"
         /\ hist[t] # "none"
         /\ Last(t).type # "error"
         /\ Present(sessions, turns[t].sid))
        => /\ Last(t).type = "aborted"
           /\ NoContent(t)
           /\ ~sessions[turns[t].sid].is_processing

C3_AbortWins ==
    \A t \in Turns :
        hist[t] = "ok" =>
            /\ NoContent(t)
            /\ turns[t].pc # "emitting"
            /\ Ended(t) => Last(t).type \in {"aborted", "error"}

C3_CleanupClears ==
    \A t \in Turns :
        (turns'[t].cleared # turns[t].cleared /\ Present(sessions', turns[t].sid))
        => ~sessions'[turns[t].sid].is_processing

\* C3 (amended): when the abort endpoint answered success = true for the
\* session of a turn between the return of chat_stream and the return of the
\* turn's engine call, and the flag was not cleared again (reset endpoint,
\* Mark processing of a turn, removal of the session) before the turn's next
\* check, the turn emits no content event and ends with an aborted event, or
\* with an error event when the engine call raises; the cleanup of every turn
\* leaves is_processing of its session false, if the session is still stored.
C3_Amended == []C3_AbortWins /\ [][C3_CleanupClears]_vars

C3_Witness ==
    \E t \in Turns :
        /\ hist[t] = "ok"
        /\ turns[t].pc = "finished"
        /\ Types(t) = <<"start", "aborted">>
        /\ Present(sessions, turns[t].sid)
        /\ ~sessions[turns[t].sid].is_processing

\* C4: POST /abort on a stored session with is_processing = false answers
\* success = false with the "not processing" message, on an absent id it
\* answers success = false with the different "not found" message, and in
\* both cases no is_aborted flag changes.
C4_AbortRejected ==
    [][\A id \in ReqIds :
          (resp'.op = "abort" /\ resp'.id = id) =>
             /\ (Present(sessions, id) /\ ~sessions[id].is_processing) =>
                   /\ resp'.ret = [success |-> FALSE, message |-> MsgNotProcessing]
                   /\ DOMAIN sessions' = DOMAIN sessions
                   /\ \A k \in DOMAIN sessions :
                         sessions'[k].is_aborted = sessions[k].is_aborted
             /\ ~Present(sessions, id) =>
                   /\ resp'.ret = [success |-> FALSE, message |-> MsgNotFound]
                   /\ sessions' = sessions
             /\ MsgNotProcessing # MsgNotFound]_vars

C4_Witness ==
    /\ resp.op = "abort"
    /\ resp.ret = [success |-> FALSE, message |-> MsgNotProcessing]
    /\ Present(sessions, resp.id)
    /\ ~sessions[resp.id].is_aborted
    /\ turns[1].pc = "finished"

\* C5 (as claimed): while a turn has marked processing and not yet emitted
\* its terminal event, and its session is stored, is_session_processing of
\* the session is true.
C5_ProcessingWhileComputing ==
    \A t \in Turns :
        (/\ turns[t].pc \in {"sent_id", "started", "engine", "emitting"}
         /\ Present(sessions, turns[t].sid))
        => is_session_processing(sessions, turns[t].sid).ret

\* C6 (as claimed): get_or_create_memory always returns a memory handle,
\* whatever the other threads do between its first read and its last effect.
C6_MemoryAlwaysReturned ==
    resp.op = "get_or_create_memory" => ~resp.raised

\* C7: the sweep of cleanup_expired_sessions, run with the time the call read,
\* removes exactly the sessions idle for more than session_timeout, keeps the
\* others (one idle for exactly session_timeout included) as they are,
\* returns the number removed, and a second sweep at the same time on the
\* store it leaves removes nothing and returns 0.
C7_SweepExact ==
    [][\A t \in Threads :
          (thr[t].pc = "sweep" /\ thr'[t].pc = "idle") =>
             LET ct   == thr[t].current_time
                 kept == {k \in DOMAIN sessions :
                             ct - sessions[k].last_access <= session_timeout}
             IN  /\ DOMAIN sessions' = kept
                 /\ \A k \in kept : sessions'[k] = sessions[k]
                 /\ resp'.op = "cleanup_expired_sessions"
                 /\ resp'.ret = Cardinality(DOMAIN sessions \ kept)
                 /\ cleanup_expired_sessions(sessions', ct)
                       = [st |-> sessions', ret |-> 0]]_vars

C7_Witness ==
    /\ resp.op = "cleanup_expired_sessions"
    /\ resp.ret = 1
    /\ \E k \in DOMAIN sessions : now - sessions[k].last_access = session_timeout

\* C8: abort_session(id) returns true exactly when the session is stored,
\* whatever its is_processing, and then the flag is set; is_session_aborted
\* returns the flag; and a stored session's flag goes from true to false only
\* in a call of reset_session_abort on it.
C8_AbortPersists ==
    [][/\ resp'.op = "abort_session" =>
             /\ resp'.ret = Present(sessions, resp'.id)
             /\ resp'.ret => sessions'[resp'.id].is_aborted
       /\ resp'.op = "is_session_aborted" =>
             resp'.ret = (Present(sessions, resp'.id)
                            /\ sessions[resp'.id].is_aborted)
       /\ \A k \in DOMAIN sessions \cap DOMAIN sessions' :
             (sessions[k].is_aborted /\ ~sessions'[k].is_aborted) =>
                (resp'.op = "reset_session_abort" /\ resp'.id = k)]_vars

C8_Witness ==
    /\ resp.op = "is_session_aborted"
    /\ resp.ret
    /\ ~sessions[resp.id].is_processing
    /\ \A t \in Threads : thr[t].calls = MaxCalls

Accessors == {"get_session", "get_chat_engine", "get_or_create_memory",
              "is_session_processing", "is_session_aborted"}

\* C9 (as claimed): when an accessor has returned for a stored session, the
\* session's last_access is the time of that lookup (no older than the time
\* the accessor was called).
C9_LookupTouches ==
    (resp.op \in Accessors /\ Present(sessions, resp.id))
    => sessions[resp.id].last_access >= resp.called

\* C10: a stored session keeps its memory, and its chat engine once one is
\* set: no request replaces or clears either, and the cached engine is the
\* one built on the session's memory.
C10_EnginePairKept ==
    [][\A id \in DOMAIN sessions \cap DOMAIN sessions' :
          /\ sessions'[id].memory = sessions[id].memory
          /\ sessions[id].chat_engine # None =>
                sessions'[id].chat_engine = sessions[id].chat_engine
          /\ sessions'[id].chat_engine # None =>
                engineMemory'[sessions'[id].chat_engine] = sessions'[id].memory]_vars

C10_Witness ==
    /\ turns[1].pc = "engine" /\ turns[2].pc = "engine"
    /\ turns[1].sid = turns[2].sid
    /\ Present(sessions, turns[1].sid)
    /\ sessions[turns[1].sid].chat_engine = turns[1].engine
    /\ turns[2].engine = turns[1].engine

\* the first k of the tokens ws joined by single spaces
RECURSIVE Joined(_, _)
Joined(ws, k) ==
    IF k = 0 THEN <<>>
    ELSE IF k = 1 THEN ws[1]
    ELSE Joined(ws, k - 1) \o <<" ">> \o ws[k]

IsPrefix(a, b) == Len(a) <= Len(b) /\ SubSeq(b, 1, Len(a)) = a

\* the events of the turn of SpecAnswer but the last
Contents == SubSeq(gen.events, 1, Len(gen.events) - 1)

\* C11, without its clause on the full answer: ceil(n/5) content events, the
\* k-th carrying the first min(5k, n) tokens joined by single spaces, each a
\* prefix of the next, then one done event.
C11_Batches ==
    gen.pc = "done" =>
        LET n == Len(gen.words)
            m == Len(gen.events) - 1
        IN  /\ m = (n + BatchSize - 1) \div BatchSize
            /\ gen.events[m + 1].type = "done"
            /\ \A k \in 1 .. m :
                  /\ Contents[k].type = "content"
                  /\ Contents[k].content =
                        Joined(gen.words,
                               IF BatchSize * k < n THEN BatchSize * k ELSE n)
                  /\ k < m => IsPrefix(Contents[k].content,
                                       Contents[k + 1].content)

\* C11 (as claimed): a turn that is not aborted emits ceil(n/5) content
\* events for an answer of n tokens, cumulative prefixes of the tokens joined
\* by single spaces, then one done event, and the last content event equals
\* the full answer (the whitespace around the answer aside).
C11_AsClaimed ==
    /\ C11_Batches
    /\ (gen.pc = "done" /\ Len(gen.words) > 0) =>
          Contents[Len(Contents)].content = strip(gen.answer)

C12_ErrorEnds ==
    \A t \in Turns :
        (Ended(t) /\ Last(t).type = "error") =>
            /\ NoContent(t)
            /\ \A k \in 1 .. Len(turns[t].events) :
                  /\ Types(t)[k] # "done"
                  /\ Types(t)[k] = "error" => k = Len(turns[t].events)
            /\ turns[t].engine_calls = 1
            /\ turns[t].pc = "finished" => turns[t].cleared = 1

C12_FlagCleared ==
    \A t \in Turns :
        (/\ turns[t].pc = "terminal"
         /\ Last(t).type = "error"
         /\ turns'[t].pc = "finished"
         /\ Present(sessions', turns[t].sid))
        => ~sessions'[turns[t].sid].is_processing

\* C12: a turn whose engine call raised emits one error event, as its last
\* event, no content and no done event, has called the engine once, and its
\* cleanup sets is_processing of its session to false.
C12_EngineFailure == []C12_ErrorEnds /\ [][C12_FlagCleared]_vars

C12_Witness ==
    \E t \in Turns :
        /\ turns[t].pc = "finished"
        /\ Types(t) = <<"session_id", "start", "error">>
        /\ turns[t].cleared = 1
        /\ Present(sessions, turns[t].sid)
        /\ ~sessions[turns[t].sid].is_processing

C13_FirstEvent ==
    \A t \in Turns :
        turns[t].pc \notin {"idle", "created"} =>
            /\ Len(turns[t].events) >= 1
            /\ turns[t].events[1].type = "session_id" <=> turns[t].req = None
            /\ turns[t].events[1].type = "session_id" =>
                  turns[t].events[1].val = turns[t].sid
            /\ \A k \in 2 .. Len(turns[t].events) :
                  turns[t].events[k].type # "session_id"

C13_CreatedForTurn ==
    \A t \in Turns :
        (turns[t].pc = "idle" /\ turns'[t].pc = "created"
           /\ turns'[t].req = None)
        => /\ ~Present(sessions, turns'[t].sid)
           /\ Present(sessions', turns'[t].sid)

\* C13: a turn emits a session_id event exactly when the request carried no
\* session id; the event is the turn's first, and carries the id of the
\* session chat_stream created for the request.
C13_SessionIdEvent == []C13_FirstEvent /\ [][C13_CreatedForTurn]_vars

C13_Witness ==
    /\ turns[1].req = None
    /\ Types(1) = <<"session_id", "start">>
    /\ turns[2].req = Unknown
    /\ Types(2) = <<"start">>

\* C20: a turn that finds is_aborted set at its check before the engine call
\* emits the aborted event as its next and last event without having called
\* the engine, and a turn that has ended calls the engine no more.
C20_PreCheckAborts ==
    [][\A t \in Turns :
          /\ (/\ turns[t].pc = "started"
              /\ turns'[t] # turns[t]
              /\ is_session_aborted(sessions, turns[t].sid).ret)
             => /\ turns'[t].pc = "terminal"
                /\ turns'[t].events =
                      Append(turns[t].events, Event("aborted", 0))
                /\ turns'[t].engine_calls = 0
          /\ Ended(t) => /\ Ended(t)'
                         /\ turns'[t].engine_calls = turns[t].engine_calls]_vars

C20_Witness ==
    \E t \in Turns :
        /\ turns[t].pc = "finished"
        /\ Types(t) = <<"start", "aborted">>
        /\ turns[t].engine_calls = 0

\* C14 (as claimed): get_or_create_memory never rejects; for a stored id it
\* returns that session's memory, for any other id the memory of a session
\* stored under a different id, the requested id staying absent.
C14_AsClaimed ==
    resp.op = "get_or_create_memory" =>
        /\ ~resp.raised
        /\ Present(sessions, resp.id) => resp.ret = sessions[resp.id].memory
        /\ ~Present(sessions, resp.id) =>
              \E k \in DOMAIN sessions \ {resp.id} :
                  sessions[k].memory = resp.ret

\* C15: the ids handed out only grow, and an id enters the store only in the
\* step that hands it out: an id that was removed, or never handed out, is
\* never made present by a later request or by a turn in flight on it.
C15_IdsNeverReused ==
    [][/\ nextId' >= nextId
       /\ \A k \in DOMAIN sessions' \ DOMAIN sessions :
             k \in nextId .. (nextId' - 1)]_vars

C15_Witness ==
    \E t \in Turns :
        /\ turns[t].pc = "finished"
        /\ turns[t].engine_calls = 1
        /\ turns[t].cleared = 1
        /\ turns[t].sid \in 1 .. (nextId - 1)
        /\ ~Present(sessions, turns[t].sid)

\* C16: create_session inserts exactly one record, under the id it returns,
\* which was not stored: flags false, no chat engine, both timestamps the
\* time of the call; every other record is unchanged.
C16_CreateInserts ==
    [][resp'.op = "create_session" =>
          LET k == resp'.ret
          IN  /\ ~Present(sessions, k)
              /\ DOMAIN sessions' = DOMAIN sessions \cup {k}
              /\ Cardinality(DOMAIN sessions')
                    = Cardinality(DOMAIN sessions) + 1
              /\ \A j \in DOMAIN sessions : sessions'[j] = sessions[j]
              /\ ~sessions'[k].is_processing
              /\ ~sessions'[k].is_aborted
              /\ sessions'[k].chat_engine = None
              /\ sessions'[k].created_at = now
              /\ sessions'[k].last_access = now]_vars

C16_Witness ==
    /\ resp.op = "create_session"
    /\ Cardinality(DOMAIN sessions) = 2
    /\ now > 0
    /\ sessions[resp.ret].created_at = now

Reads == {"get_session", "get_chat_engine", "is_session_processing",
          "is_session_aborted"}

\* C17: a read called with an id that is not stored, removed or never
\* created, returns None (get_session, get_chat_engine) or false
\* (is_session_processing, is_session_aborted) and leaves the store as it is.
C17_AbsentReads ==
    [][(/\ resp'.op \in Reads
        /\ ~Present(sessions, resp'.id)
        /\ \E t \in Threads : /\ thr[t].pc = "idle"
                              /\ thr'[t].calls = thr[t].calls + 1)
       => /\ sessions' = sessions
          /\ resp'.op \in {"get_session", "get_chat_engine"} =>
                resp'.ret = None
          /\ resp'.op \in {"is_session_processing", "is_session_aborted"} =>
                resp'.ret = FALSE]_vars

C17_Witness ==
    /\ resp.op = "is_session_aborted"
    /\ resp.id \in 1 .. (nextId - 1)
    /\ ~Present(sessions, resp.id)
    /\ resp.ret = FALSE

\* C18: delete_session(id) returns true exactly when id was stored, removes
\* that record and no other, changes no other record, and a second
\* delete_session(id) returns false and changes nothing.
C18_DeleteExact ==
    [][resp'.op = "delete_session" =>
          /\ resp'.ret = Present(sessions, resp'.id)
          /\ DOMAIN sessions' = DOMAIN sessions \ {resp'.id}
          /\ \A k \in DOMAIN sessions' : sessions'[k] = sessions[k]
          /\ delete_session(sessions', resp'.id)
                = [st |-> sessions', ret |-> FALSE]]_vars

C18_Witness ==
    /\ resp.op = "delete_session"
    /\ resp.ret
    /\ Cardinality(DOMAIN sessions) = 1

\* C19: POST /reset on a stored session answers success = true and leaves
\* is_aborted and is_processing false, whatever they were; memory and
\* chat_engine are unchanged; a second call right after gives the same
\* answer and the same store.
C19_ResetIdempotent ==
    [][(resp'.op = "reset" /\ Present(sessions, resp'.id)) =>
          LET id == resp'.id
          IN  /\ resp'.ret.success
              /\ Present(sessions', id)
              /\ ~sessions'[id].is_aborted
              /\ ~sessions'[id].is_processing
              /\ sessions'[id].memory = sessions[id].memory
              /\ sessions'[id].chat_engine = sessions[id].chat_engine
              /\ reset_session_state(sessions', id, now)
                    = [st |-> sessions', ret |-> resp'.ret]]_vars

C19_Witness ==
    /\ resp.op = "reset"
    /\ resp.ret.success
    /\ turns[1].pc = "engine"
    /\ turns[1].sid = resp.id
    /\ sessions[resp.id].chat_engine # None

\* the event a step of turn t has just appended, if it appended one
Appended(t) == turns'[t].events[Len(turns'[t].events)]

C21_AbortedIsLast ==
    \A t \in Turns :
        \A k \in 1 .. Len(turns[t].events) :
            Types(t)[k] = "aborted" => (k = Len(turns[t].events) /\ Ended(t))

C21_LoopCheck ==
    \A t \in Turns :
        /\ (/\ turns[t].pc = "emitting"
            /\ turns'[t] # turns[t]
            /\ turns[t].i < turns[t].n
            /\ is_session_aborted(sessions, turns[t].sid).ret)
           => /\ turns'[t].pc = "terminal"
              /\ turns'[t].events =
                    Append(turns[t].events, Event("aborted", 0))
        /\ Ended(t) => turns'[t].events = turns[t].events

\* C21: a turn in its emission loop that finds is_aborted set at the check
\* before its next token emits the aborted event as its next event and stops:
\* an aborted event is the last event of its turn, there is at most one, and
\* no content or done event follows it.
C21_EmissionAbort == []C21_AbortedIsLast /\ [][C21_LoopCheck]_vars

C21_Witness ==
    \E t \in Turns :
        /\ turns[t].pc = "finished"
        /\ Types(t) = <<"start", "content", "aborted">>
        /\ turns[t].i < turns[t].n

\* C22 (as claimed): a turn for whose session the abort endpoint answered
\* success = true while the turn was in flight, the flag staying set and the
\* engine call not raising, ends with an aborted event.
C22_AsClaimed ==
    \A t \in Turns :
        (hist[t] \in {"ok", "late"} /\ Ended(t) /\ Last(t).type # "error")
        => Last(t).type = "aborted"

C22_NothingFurther ==
    \A t \in Turns :
        (hist[t] = "ok" /\ turns'[t].events # turns[t].events)
        => Appended(t).type \notin {"content", "done"}

C22_EndsAborted ==
    \A t \in Turns :
        (hist[t] = "ok" /\ Ended(t)) => Last(t).type \in {"aborted", "error"}

\* C22 (amended): when the abort endpoint answered success = true for the
\* session of a turn in flight that still had a check of the flag ahead, and
\* the flag was not cleared again (reset endpoint, Mark processing of another
\* turn, removal of the session) before that check, the turn emits no further
\* content event and no done event: it ends with an aborted event, or with an
\* error event when its engine call raises.
C22_Amended == []C22_EndsAborted /\ [][C22_NothingFurther]_vars

C22_Witness ==
    \E t \in Turns :
        /\ hist[t] = "ok"
        /\ turns[t].pc = "finished"
        /\ Types(t) = <<"session_id", "start", "content", "aborted">>

C23_AbortedOnlyAfterMark ==
    \A t \in Turns :
        (Ended(t) /\ Last(t).type = "aborted") => hist[t] # "none"

C23_MarkClears ==
    \A t \in Turns :
        (/\ turns[t].pc = "created"
         /\ turns'[t] # turns[t]
         /\ Present(sessions, turns[t].sid))
        => ~sessions'[turns[t].sid].is_aborted

\* C23: the Mark processing step of a turn leaves is_aborted of its session
\* false, whatever it was, and a turn ends with an aborted event only if the
\* abort endpoint set the flag of its session (abort_session is called
\* nowhere else) after that step and before the turn's terminal event.
C23_StaleFlagCleared == []C23_AbortedOnlyAfterMark /\ [][C23_MarkClears]_vars

C23_Witness ==
    /\ turns[1].pc = "finished" /\ Last(1).type = "aborted" /\ hist[1] = "ok"
    /\ turns[2].pc = "finished" /\ Last(2).type = "done" /\ hist[2] = "none"
    /\ turns[2].sid = turns[1].sid
    /\ turns[2].n > 0
    /\ Present(sessions, turns[2].sid)
    /\ ~sessions[turns[2].sid].is_aborted

C24_SharedHandle ==
    \A t, u \in Turns :
        (/\ t # u
         /\ turns[t].pc = "engine" /\ turns[u].pc = "engine"
         /\ turns[t].sid = turns[u].sid
         /\ Present(sessions, turns[t].sid))
        => /\ turns[t].engine = turns[u].engine
           /\ engineMemory[turns[t].engine] = sessions[turns[t].sid].memory

C24_NoGate ==
    \A t \in Turns :
        (turns[t].pc = "created" /\ turns'[t] # turns[t])
        => /\ turns'[t].pc \in {"sent_id", "started"}
           /\ Present(sessions, turns[t].sid) =>
                 sessions'[turns[t].sid].is_processing

C25_Gone ==
    \A t \in Turns : hist[t] = "swept" => ~Present(sessions, turns[t].sid)

C25_NoOps ==
    \A t \in Turns :
        (hist[t] = "swept" /\ turns'[t] # turns[t])
        => /\ sessions' = sessions
           /\ turns'[t].events # turns[t].events =>
                 /\ Appended(t).type # "aborted"
                 /\ Appended(t).type = "error" => turns[t].pc = "engine"

\* C25: when the sweep of GET /sessions has removed the session of a turn in
\* flight whose is_processing was set, the session stays absent, every later
\* step of the turn leaves the store as it is and raises nothing (the turn
\* ends with an error event only if its engine call raises, and never with an
\* aborted event), and the turn reaches its terminal event and its cleanup.
C25_SweepUnderTurn ==
    /\ []C25_Gone
    /\ [][C25_NoOps]_vars
    /\ \A t \in Turns : (hist[t] = "swept") ~> (turns[t].pc = "finished")

C25_Witness ==
    \E t \in Turns :
        /\ hist[t] = "swept"
        /\ turns[t].pc = "finished"
        /\ Types(t) = <<"start", "content", "content", "done">>
        /\ turns[t].cleared = 1

\* the stores the methods of SessionManager and the endpoints leave when
\* called with id A in this state
StoresAfter(A) ==
    {get_session(sessions, A, now).st,
     get_chat_engine(sessions, A, now).st,
     get_or_create_memory(sessions, A, nextId, now).st,
     delete_session(sessions, A).st,
     abort_session(sessions, A).st,
     is_session_aborted(sessions, A).st,
     reset_session_abort(sessions, A).st,
     is_session_processing(sessions, A).st,
     bind_engine(sessions, A, now, nextId, nextEngine).st,
     abort_chat(sessions, A, now).st,
     reset_session_state(sessions, A, now).st,
     get_session_status(sessions, A, now).st,
     delete_session_endpoint(sessions, A).st}
    \cup {set_chat_engine(sessions, A, e).st : e \in 1 .. MaxEngines}
    \cup {set_processing_status(sessions, A, f).st : f \in BOOLEAN}
    \cup {get_intelligent_greeting(sessions, A, now, nextId, nextEngine, ok).st :
             ok \in BOOLEAN}

C26_CallFrame ==
    \A A \in ReqIds : \A B \in DOMAIN sessions \ {A} :
        \A S \in StoresAfter(A) : Present(S, B) /\ S[B] = sessions[B]

C26_NoSharing ==
    \A A, B \in DOMAIN sessions :
        A # B => /\ sessions[A].memory # sessions[B].memory
                 /\ (sessions[A].chat_engine # None) =>
                       sessions[A].chat_engine # sessions[B].chat_engine

C26_TurnFrame ==
    \A t \in Turns :
        turns'[t] # turns[t] =>
            /\ \A B \in DOMAIN sessions \ {turns'[t].sid} :
                  Present(sessions', B) /\ sessions'[B] = sessions[B]
            /\ (/\ turns'[t].events # turns[t].events
                /\ Appended(t).type = "aborted")
               => is_session_aborted(sessions, turns[t].sid).ret

\* C26: a method of the store or an endpoint called with id A, and every
\* step of a turn on A, leaves the record of every other stored session as
\* it is; two stored sessions never have the same memory or the same chat
\* engine; a turn ends aborted only on the flag of its own session, which an
\* abort of another session does not touch.
C26_Isolation ==
    /\ [](C26_CallFrame /\ C26_NoSharing)
    /\ [][C26_TurnFrame]_vars

C26_Witness ==
    /\ turns[1].pc = "finished" /\ Last(1).type = "aborted"
    /\ turns[2].pc = "finished" /\ Last(2).type = "done" /\ turns[2].n > 0
    /\ turns[1].sid # turns[2].sid
    /\ Present(sessions, turns[1].sid) /\ Present(sessions, turns[2].sid)
    /\ sessions[turns[1].sid].is_aborted
    /\ ~sessions[turns[2].sid].is_aborted
    /\ sessions[turns[1].sid].chat_engine = turns[1].engine
    /\ sessions[turns[2].sid].chat_engine = turns[2].engine

Mutators == {"set_chat_engine", "set_processing_status", "abort_session",
             "reset_session_abort", "delete_session"}

\* C27: set_chat_engine, set_processing_status, abort_session,
\* reset_session_abort and delete_session called with an id that is not
\* stored return false (set_chat_engine: None), raise nothing and leave the
\* store as it is.
C27_AbsentMutators ==
    [][(resp'.op \in Mutators /\ ~Present(sessions, resp'.id)) =>
          /\ sessions' = sessions
          /\ ~resp'.raised
          /\ resp'.ret = IF resp'.op = "set_chat_engine" THEN None ELSE FALSE]_vars

C27_Witness ==
    /\ resp.op = "set_processing_status"
    /\ resp.id \in 1 .. (nextId - 1)
    /\ ~Present(sessions, resp.id)
    /\ resp.ret = FALSE
    /\ DOMAIN sessions # {}

\* turn t was accepted with an id that was not stored: its engine is built on
\* the memory of another session than the one it names
Orphan(t) ==
    /\ turns[t].pc # "idle"
    /\ turns[t].req # None
    /\ engineMemory[turns[t].engine] # turns[t].sid

C28_Absent ==
    \A t \in Turns :
        Orphan(t) =>
            LET sid == turns[t].sid
            IN  /\ sid = turns[t].req
                /\ ~Present(sessions, sid)
                /\ get_session_status(sessions, sid, now).ret
                      = [exists |-> FALSE, message |-> MsgNotFound]
                /\ abort_chat(sessions, sid, now).ret
                      = [success |-> FALSE, message |-> MsgNotFound]
                /\ \A k \in 1 .. Len(turns[t].events) :
                      Types(t)[k] \notin {"aborted", "session_id"}
                /\ \A k \in DOMAIN sessions :
                      sessions[k].chat_engine # turns[t].engine

C28_Steps ==
    \A t \in Turns :
        /\ (turns[t].pc = "idle" /\ Orphan(t)') =>
              /\ ~Present(sessions, nextId)
              /\ DOMAIN sessions' = DOMAIN sessions \cup {nextId}
              /\ Cardinality(DOMAIN sessions')
                    = Cardinality(DOMAIN sessions) + 1
              /\ sessions'[nextId] = NewSession(nextId, now)
              /\ engineMemory'[turns'[t].engine] = sessions'[nextId].memory
              /\ \A k \in DOMAIN sessions : sessions'[k] = sessions[k]
        /\ (Orphan(t) /\ turns'[t] # turns[t]) => sessions' = sessions

\* C28: a turn accepted with a supplied id that is not stored adds exactly
\* one session, under a new id, idle and without a cached engine, and runs
\* its engine on that session's memory; the supplied id stays absent (status
\* answers exists = false, abort answers "not found"); no step of the turn
\* changes the store afterwards; the turn emits no session_id event and no
\* aborted event.
C28_OrphanTurn == []C28_Absent /\ [][C28_Steps]_vars

C28_Witness ==
    /\ \A t \in Turns :
          /\ turns[t].pc = "finished"
          /\ turns[t].req = Unknown
          /\ Types(t) = <<"start", "content", "content", "done">>
    /\ Cardinality(DOMAIN sessions) = 2
    /\ \A k \in DOMAIN sessions :
          sessions[k].chat_engine = None /\ ~sessions[k].is_processing

\* C29: whenever is_processing of a stored session is true, some turn on
\* that session has marked processing and not yet run its cleanup; so when
\* every turn on a session has run its cleanup the flag is false.
C29_NeverSticks ==
    \A s \in DOMAIN sessions :
        sessions[s].is_processing =>
            \E t \in Turns : /\ turns[t].sid = s
                             /\ turns[t].pc \in InFlight \cup {"terminal"}

C29_Witness ==
    /\ turns[1].pc = "finished" /\ Last(1).type = "error"
    /\ turns[2].pc = "finished" /\ Last(2).type = "aborted"
    /\ turns[1].sid = turns[2].sid
    /\ Present(sessions, turns[1].sid)
    /\ ~sessions[turns[1].sid].is_processing

\* C30: every accepted turn whose generator keeps being run, and whose
\* engine call returns or raises, reaches its terminal event and then its
\* cleanup, which leaves is_processing of its session (if still stored)
\* false, whatever aborts, resets, deletes and sweeps are served in between.
C30_Terminates ==
    \A t \in Turns :
        (turns[t].pc = "created") ~>
            (/\ turns[t].pc = "finished"
             /\ turns[t].cleared = 1
             /\ Last(t).type \in TerminalTypes
             /\ Present(sessions, turns[t].sid) =>
                   ~sessions[turns[t].sid].is_processing)

C30_Witness ==
    \E t \in Turns :
        /\ turns[t].pc = "finished"
        /\ Types(t) = <<"session_id", "start", "content", "aborted">>
        /\ ~Present(sessions, turns[t].sid)
        /\ now = MaxTicks * ClockStep

=============================================================================
